---- MODULE Spec2Model ----
(***************************************************************************)
(* A model of the legal-consultation agent: utils.py (credential           *)
(* resolution and the pipeline legal_agent) and main.py (the Streamlit     *)
(* script: the credential gate, the upload handling, the three             *)
(* consultation buttons, the clear button and the history section).        *)
(*                                                                         *)
(* Python values are tagged records (PyStr, PyList, PyDict, ...), so a     *)
(* pipeline result that is not a dict is a value of the model as it is a   *)
(* value of the program.  A Python str is a sequence of lexemes: a run of  *)
(* plain characters, or one JSON token (a punctuation mark, a string       *)
(* literal, a number, a literal name).  json.loads is a parser over those  *)
(* lexemes.  Timestamps are left out: nothing but the page text reads them.*)
(***************************************************************************)
EXTENDS Integers, Sequences, FiniteSets, TLC

VARIABLES
    secrets,               \* st.secrets as a mapping (external, reloaded on change)
    environ,               \* os.environ after load_dotenv, as a mapping
    dotenv,                \* whether the package dotenv can be imported
    chat_history,          \* st.session_state.chat_history
    consultation_results,  \* st.session_state.consultation_results
    doc_content,           \* st.session_state.doc_content
    legal_domain,          \* st.session_state.legal_domain
    doc_file,              \* the file the uploader widget holds
    page,                  \* what the last script run left on screen
    display,               \* the entries the history section reached, in order
    last                   \* what the last script run (or direct call) did

vars == <<secrets, environ, dotenv, chat_history, consultation_results,
          doc_content, legal_domain, doc_file, page, display, last>>

-----------------------------------------------------------------------------
(* Bounds *)

\* Most entries the ledger holds in the session specification.
MaxHistory == 2

-----------------------------------------------------------------------------
(* Python values *)

Lx(kind, text) == [kind |-> kind, text |-> text]
Plain(s) == <<Lx("text", s)>>
P(s) == Lx("punct", s)
S(s) == Lx("string", s)

PyNone == [t |-> "none"]
PyStr(s) == [t |-> "str", s |-> s]
PyNum(n) == [t |-> "num", n |-> n]
PyBool(b) == [t |-> "bool", b |-> b]
PyList(xs) == [t |-> "list", xs |-> xs]
PyDict(d) == [t |-> "dict", d |-> d]

\* Python truth value of a value (what `if v:` and `not v` test).
Truthy(v) ==
    CASE v.t = "none" -> FALSE
      [] v.t = "str"  -> Len(v.s) > 0
      [] v.t = "num"  -> v.n # "0"
      [] v.t = "bool" -> v.b
      [] v.t = "list" -> Len(v.xs) > 0
      [] v.t = "dict" -> DOMAIN v.d # {}

\* Whether `for x in v` works on the value.
Iterable(v) == v.t \in {"str", "list", "dict"}

-----------------------------------------------------------------------------
(* json.loads, over lexemes *)

\* n consecutive "[" characters, written as one lexeme.
Nest(n) == [kind |-> "nest", text |-> "[", n |-> n]

\* sys.getrecursionlimit() of the interpreter: the decoder enters one level
\* per array or object it opens and raises RecursionError when the depth
\* reaches the limit (the frames the caller already holds only lower the
\* depth at which that happens).
RECURSION_LIMIT == 1000

DecodeError == [ok |-> FALSE, error |-> "JSONDecodeError"]
RecursionError == [ok |-> FALSE, error |-> "RecursionError"]

RECURSIVE parse_value(_, _, _), parse_array(_, _, _, _), parse_object(_, _, _, _)

parse_value(toks, i, depth) ==
    IF i > Len(toks) THEN DecodeError
    ELSE LET tk == toks[i] IN
         CASE tk.kind = "string" ->
                [ok |-> TRUE, val |-> PyStr(Plain(tk.text)), next |-> i + 1]
           [] tk.kind = "number" ->
                [ok |-> TRUE, val |-> PyNum(tk.text), next |-> i + 1]
           [] tk = Lx("literal", "null") ->
                [ok |-> TRUE, val |-> PyNone, next |-> i + 1]
           [] tk = Lx("literal", "true") ->
                [ok |-> TRUE, val |-> PyBool(TRUE), next |-> i + 1]
           [] tk = Lx("literal", "false") ->
                [ok |-> TRUE, val |-> PyBool(FALSE), next |-> i + 1]
           [] tk.kind = "nest" ->
                IF depth + tk.n >= RECURSION_LIMIT THEN RecursionError
                ELSE IF tk.n > 1
                     THEN parse_array([toks EXCEPT ![i] = Nest(tk.n - 1)], i,
                                      <<>>, depth + 1)
                ELSE IF i + 1 <= Len(toks) /\ toks[i + 1] = P("]")
                     THEN [ok |-> TRUE, val |-> PyList(<<>>), next |-> i + 2]
                ELSE parse_array(toks, i + 1, <<>>, depth + 1)
           [] tk = P("[") ->
                IF depth + 1 >= RECURSION_LIMIT THEN RecursionError
                ELSE IF i + 1 <= Len(toks) /\ toks[i + 1] = P("]")
                     THEN [ok |-> TRUE, val |-> PyList(<<>>), next |-> i + 2]
                ELSE parse_array(toks, i + 1, <<>>, depth + 1)
           [] tk = P("{") ->
                IF depth + 1 >= RECURSION_LIMIT THEN RecursionError
                ELSE IF i + 1 <= Len(toks) /\ toks[i + 1] = P("}")
                     THEN [ok |-> TRUE, val |-> PyDict(<<>>), next |-> i + 2]
                ELSE parse_object(toks, i + 1, <<>>, depth + 1)
           [] OTHER -> DecodeError

\* After "[" or ",": a value, then "," or "]".
parse_array(toks, i, acc, depth) ==
    LET v == parse_value(toks, i, depth) IN
    IF ~v.ok THEN v
    ELSE IF v.next > Len(toks) THEN DecodeError
    ELSE IF toks[v.next] = P(",")
         THEN parse_array(toks, v.next + 1, Append(acc, v.val), depth)
    ELSE IF toks[v.next] = P("]")
         THEN [ok |-> TRUE, val |-> PyList(Append(acc, v.val)), next |-> v.next + 1]
    ELSE DecodeError

\* After "{" or ",": a string key, ":", a value, then "," or "}".  A key given
\* twice keeps its last value.
parse_object(toks, i, acc, depth) ==
    IF i + 1 > Len(toks) \/ toks[i].kind # "string" \/ toks[i + 1] # P(":")
    THEN DecodeError
    ELSE LET v == parse_value(toks, i + 2, depth)
             d == (toks[i].text :> v.val) @@ acc
         IN  IF ~v.ok THEN v
             ELSE IF v.next > Len(toks) THEN DecodeError
             ELSE IF toks[v.next] = P(",")
                  THEN parse_object(toks, v.next + 1, d, depth)
             ELSE IF toks[v.next] = P("}")
                  THEN [ok |-> TRUE, val |-> PyDict(d), next |-> v.next + 1]
             ELSE DecodeError

\* The whole text must be one value: anything after it is "Extra data".
json_loads(text) ==
    LET r == parse_value(text, 1, 0) IN
    IF ~r.ok THEN r
    ELSE IF r.next = Len(text) + 1
         THEN [ok |-> TRUE, val |-> r.val]
    ELSE DecodeError

-----------------------------------------------------------------------------
(* utils.py: credential resolution *)

NoKey == [none |-> TRUE, s |-> ""]
Key(s) == [none |-> FALSE, s |-> s]
\* `if api_key:` for None or a str.
HasKey(k) == ~k.none /\ k.s # ""

DEFAULT_API_BASE == "https://twapi.openai-hk.com/v1"

\* os.getenv(name, default): default None is NoKey.
getenv(env, name, default) ==
    IF name \in DOMAIN env THEN Key(env[name]) ELSE default

get_api_credentials(sec, env, has_dotenv) ==
    IF "API_KEY" \in DOMAIN sec
    THEN [api_key |-> Key(sec["API_KEY"]), api_base |-> Key(DEFAULT_API_BASE)]
    ELSE \* the lookup raised: the environment, if dotenv imports
         LET api_key == getenv(env, "OPENAI_API_KEY", NoKey)
             api_base == getenv(env, "OPENAI_API_BASE", Key(DEFAULT_API_BASE))
         IN  IF has_dotenv /\ HasKey(api_key)
             THEN [api_key |-> api_key, api_base |-> api_base]
             ELSE [api_key |-> NoKey, api_base |-> Key("https://api.openai.com/v1")]

-----------------------------------------------------------------------------
(* utils.py: the pipeline *)

\* "无法识别格式化参考" (strings of the module are ASCII: each stands for the
\* source text quoted beside it)
REF_UNPARSED == "<cannot recognise formatted references>"

missing_key_result ==
    PyDict([answer |-> PyStr(Plain("<error: API key not found; set API_KEY in Streamlit Secrets>")),
            references |-> PyList(<<PyStr(Plain("<add API_KEY in the Streamlit settings>"))>>)])

\* "请检查您的API密钥和网络连接"
REF_CHECK_CONNECTION == "<check your API key and network connection>"

\* The failure result without the exception's text.
call_failed_result_generic(e) ==
    PyDict([answer |-> PyStr(Plain("<sorry, cannot connect to the AI service: >")),
            references |-> PyList(<<PyStr(Plain(REF_CHECK_CONNECTION))>>)])

\* f"抱歉，无法连接到AI服务：{str(e)}"
call_failed_result(e) ==
    PyDict([answer |-> PyStr(Plain("<sorry, cannot connect to the AI service: >") \o e),
            references |-> PyList(<<PyStr(Plain(REF_CHECK_CONNECTION))>>)])

fallback_result(response) ==
    PyDict([answer |-> PyStr(response),
            references |-> PyList(<<PyStr(Plain(REF_UNPARSED))>>)])

\* str(e) of the RecursionError json.loads raises
RECURSION_MESSAGE ==
    "maximum recursion depth exceeded while decoding a JSON array from a unicode string"

Returned(value) == [raised |-> FALSE, value |-> value, e |-> <<>>]
Raised(e) == [raised |-> TRUE, value |-> PyNone, e |-> e]

\* try: return json.loads(response) / except json.JSONDecodeError: the
\* fallback.  Any other exception of json.loads leaves the inner try.
parse_response(response) ==
    LET r == json_loads(response) IN
    IF r.ok THEN Returned(r.val)
    ELSE IF r.error = "JSONDecodeError" THEN Returned(fallback_result(response))
    ELSE Raised(Plain(RECURSION_MESSAGE))

\* PromptTemplate(template=PROMPT_TEMPLATE).format(query, consult_type, legal_domain)
format_prompt(query, consult_type, domain) ==
    Plain("<template head> consult type: ") \o Plain(consult_type)
    \o Plain("\nlegal domain: ") \o Plain(domain)
    \o Plain("\n\n<reply formats>\n\nuser question: ") \o query \o Plain("\n")

\* What one invocation did: the value returned, how often the build-and-run
\* block was entered, how often chain.run was invoked and with which prompt.
Ret(value, attempts, outbound, prompt) ==
    [value |-> value, attempts |-> attempts, outbound |-> outbound,
     prompt |-> prompt, raised |-> FALSE]

\* The build-and-run block (lines 172-201) under svc: what the remote service
\* (and the client library) do on this invocation: building the chain
\* raises, chain.run raises, or chain.run returns a reply text.  Whatever is
\* raised inside the block, by json.loads too, ends in `except Exception`.
run_chain(query, consult_type, domain, svc) ==
    CASE svc.kind = "build_error" ->
            Ret(call_failed_result(svc.text), 1, 0, <<>>)
      [] svc.kind = "call_error" ->
            Ret(call_failed_result(svc.text), 1, 1,
                format_prompt(query, consult_type, domain))
      [] svc.kind = "reply" ->
            LET parsed == parse_response(svc.text) IN
            Ret(IF parsed.raised THEN call_failed_result(parsed.e)
                ELSE parsed.value,
                1, 1, format_prompt(query, consult_type, domain))

\* legal_agent without its `if not api_key` return.
legal_agent_unchecked(query, consult_type, domain, sec, env, has_dotenv, svc) ==
    run_chain(query, consult_type, domain, svc)

legal_agent(query, consult_type, domain, sec, env, has_dotenv, svc) ==
    LET cred == get_api_credentials(sec, env, has_dotenv) IN
    IF ~HasKey(cred.api_key)
    THEN Ret(missing_key_result, 0, 0, <<>>)
    ELSE run_chain(query, consult_type, domain, svc)

-----------------------------------------------------------------------------
(* Inputs *)

SecretsStates ==
    {<<>>, [API_KEY |-> ""], [API_KEY |-> "sk-secret"]}

Environs ==
    {<<>>, [OPENAI_API_KEY |-> ""], [OPENAI_API_KEY |-> "sk-env"],
     [OPENAI_API_KEY |-> "sk-env", OPENAI_API_BASE |-> "https://proxy.example/v1"]}

\* Raw reply texts of the model.
ProseReply == Plain("According to the Labour Contract Law, ...")
FullReply ==
    <<P("{"), S("answer"), P(":"), S("A"), P(","),
      S("references"), P(":"), P("["), S("R"), P("]"), P("}")>>
StepsReply ==
    <<P("{"), S("answer"), P(":"), S("A"), P(","),
      S("steps"), P(":"), P("["), S("S1"), P(","), S("S2"), P("]"), P(","),
      S("references"), P(":"), P("["), S("R"), P("]"), P("}")>>
BareReply == <<P("{"), S("answer"), P(":"), S("A"), P("}")>>
NoAnswerReply ==
    <<P("{"), S("references"), P(":"), P("["), S("R"), P("]"), P("}")>>
ArrayReply == <<P("["), S("A"), P("]")>>
NullReply == <<Lx("literal", "null")>>
TruncatedReply == <<P("{"), S("answer"), P(":"), S("A")>>
WrappedReply == Plain("Here is the answer: ") \o FullReply
TrailingReply == FullReply \o Plain(" I hope this helps.")
EmptyReply == <<>>
\* "[[[[...": more opening brackets than the interpreter's recursion limit
DeepReply == <<Nest(RECURSION_LIMIT + 100)>>
\* "[[[\"A\"]]]"
NestedReply == <<Nest(3), S("A"), P("]"), P("]"), P("]")>>

\* The reply texts that are not one JSON value.
UndecodableReplies ==
    {ProseReply, TruncatedReply, WrappedReply, TrailingReply, EmptyReply,
     DeepReply}
DecodableReplies ==
    {FullReply, StepsReply, BareReply, NoAnswerReply, ArrayReply, NullReply,
     NestedReply}
RawReplies == UndecodableReplies \cup DecodableReplies

Reply(text) == [kind |-> "reply", text |-> text]
BuildError == [kind |-> "build_error", text |-> Plain("ValidationError: api_key")]
CallError == [kind |-> "call_error", text |-> Plain("Connection error.")]
NoSvc == [kind |-> "none", text |-> <<>>]

\* What the service may do on a call made directly to the pipeline ...
ServiceOutcomes == {BuildError, CallError} \cup {Reply(r) : r \in RawReplies}
\* ... and on a call made from a session.
SessionOutcomes == {CallError, Reply(FullReply), Reply(ArrayReply)}

BASIC == "basic legal information"      \* "基本法律信息"
DOCUMENT == "legal document reading"    \* "法律文件解读"
CASE_STUDY == "case study and strategy" \* "案件研究与策略"
ConsultTypes == {BASIC, DOCUMENT, CASE_STUDY}

GENERAL == "general legal advice"       \* "一般法律咨询"
LEGAL_DOMAINS == {GENERAL, "labour law"}

Question == Plain("Is compensation due on dismissal during probation?")
Queries == {<<>>, Question}
CaseDetails == {<<>>, Plain("Dismissed on day 20 of a 30-day probation.")}

-----------------------------------------------------------------------------
(* What a run did *)

NoCall == [value |-> PyNone, attempts |-> 0, outbound |-> 0, prompt |-> <<>>,
           raised |-> FALSE]
NoRequest == [query |-> <<>>, consult_type |-> "", legal_domain |-> ""]
NoInputs == [query |-> <<>>, case_details |-> <<>>]

\* event: what started the run; gate: whether the script passed its
\* credential check; runs: how many times legal_agent was invoked; sent: its
\* arguments; svc: what the service did; call: what the invocation did;
\* crashed: whether the script raised after the invocation.
Obs(event, gate, inputs, runs, sent, svc, call, crashed) ==
    [event |-> event, gate |-> gate, inputs |-> inputs, runs |-> runs,
     sent |-> sent, svc |-> svc, call |-> call, crashed |-> crashed]

Idle(event, gate) ==
    Obs(event, gate, NoInputs, 0, NoRequest, NoSvc, NoCall, FALSE)

-----------------------------------------------------------------------------
(* The pipeline on its own: legal_agent called with any request, under any *)
(* configuration, whatever the service does.                               *)

NoFile == [present |-> FALSE, name |-> "", file_type |-> "", readable |-> FALSE,
           parts |-> <<>>]

SessionInit ==
    /\ chat_history = <<>>
    /\ consultation_results = <<>>
    /\ doc_content = PyNone
    /\ legal_domain = GENERAL
    /\ doc_file = NoFile
    /\ page = "app"
    /\ display = <<>>
    /\ last = Idle("init", TRUE)

InitPipeline ==
    /\ secrets \in SecretsStates
    /\ environ \in Environs
    /\ dotenv \in BOOLEAN
    /\ SessionInit

call_legal_agent(query, consult_type, domain, svc) ==
    /\ last' = Obs("legal_agent", TRUE,
                   [query |-> query, case_details |-> <<>>], 1,
                   [query |-> query, consult_type |-> consult_type,
                    legal_domain |-> domain],
                   svc,
                   legal_agent(query, consult_type, domain, secrets, environ,
                               dotenv, svc),
                   FALSE)
    /\ UNCHANGED <<secrets, environ, dotenv, chat_history, consultation_results,
                   doc_content, legal_domain, doc_file, page, display>>

NextPipeline ==
    \E q \in Queries, ct \in ConsultTypes, d \in LEGAL_DOMAINS,
       svc \in ServiceOutcomes :
        call_legal_agent(q, ct, d, svc)

SpecPipeline == InitPipeline /\ [][NextPipeline]_vars

-----------------------------------------------------------------------------
(* main.py: the uploaded document *)

\* Both extraction libraries import in the deployment modelled.
PDF_SUPPORT == TRUE
DOCX_SUPPORT == TRUE

\* An uploaded file: file_type is the last dot-separated part of its name in
\* lower case; readable says whether the reader of that type accepts the
\* bytes; parts are its pages (pdf), paragraphs (docx) or whole text (txt).
ContractTxt ==
    [present |-> TRUE, name |-> "contract.txt", file_type |-> "txt",
     readable |-> TRUE, parts |-> <<Plain("Party A shall pay within 30 days.")>>]
ScanPdf ==
    [present |-> TRUE, name |-> "scan.pdf", file_type |-> "pdf",
     readable |-> FALSE, parts |-> <<>>]
Files == {ContractTxt, ScanPdf}

RECURSIVE join(_, _)
\* sep.join(parts)
join(sep, parts) ==
    IF Len(parts) = 0 THEN <<>>
    ELSE IF Len(parts) = 1 THEN parts[1]
    ELSE parts[1] \o sep \o join(sep, Tail(parts))

\* The extracted text, or None: for a type that has no reader, for a type
\* whose library is missing, and when the reader raises.
display_document_content(file, file_type) ==
    CASE file_type = "pdf" ->
            IF ~PDF_SUPPORT \/ ~file.readable THEN PyNone
            ELSE PyStr(join(<<>>, file.parts))
      [] file_type = "docx" ->
            IF ~DOCX_SUPPORT \/ ~file.readable THEN PyNone
            ELSE PyStr(join(Plain("\n"), file.parts))
      [] file_type = "txt" ->
            IF ~file.readable THEN PyNone ELSE PyStr(file.parts[1])
      [] OTHER -> PyNone

\* if doc_file: ... if doc_content: st.session_state.doc_content = doc_content
\* The value of st.session_state.doc_content after lines 216-225.
process_upload(file, stored) ==
    IF file.present
    THEN LET content == display_document_content(file, file.file_type) IN
         IF Truthy(content) THEN content ELSE stored
    ELSE stored

-----------------------------------------------------------------------------
(* main.py: the history section *)

HISTORY_SHOWN == 5

Min(a, b) == IF a < b THEN a ELSE b
Max(a, b) == IF a > b THEN a ELSE b

\* s[-n:]
last_slice(s, n) == SubSeq(s, Max(1, Len(s) - n + 1), Len(s))

\* reversed(s)
reversed(s) == [i \in 1..Len(s) |-> s[Len(s) - i + 1]]

\* Whether lines 350-367 render the item without raising: .get needs a dict;
\* a steps or references value that is present and true is iterated.
item_renders(item) ==
    /\ item.result.t = "dict"
    /\ \A k \in {"steps", "references"} :
          (k \in DOMAIN item.result.d /\ Truthy(item.result.d[k]))
              => Iterable(item.result.d[k])

RECURSIVE rendered_prefix(_)
\* The items the loop reaches: it ends at the first that raises.
rendered_prefix(items) ==
    IF Len(items) = 0 THEN <<>>
    ELSE IF item_renders(items[1])
         THEN <<items[1]>> \o rendered_prefix(Tail(items))
    ELSE <<items[1]>>

\* if chat_history: for item in reversed(chat_history[-5:]): ...
render_history(history) ==
    rendered_prefix(reversed(last_slice(history, HISTORY_SHOWN)))

-----------------------------------------------------------------------------
(* main.py: the script *)

\* Lines 14-28: without an API key the script shows an error and stops.
gate_passes == HasKey(get_api_credentials(secrets, environ, dotenv).api_key)

\* Whether `'- ' + ref for ref in v` (and the like for steps) works.
joinable(v) ==
    /\ Iterable(v)
    /\ v.t = "list" => \A i \in 1..Len(v.xs) : v.xs[i].t = "str"

\* Whether the lines that show a result and build its report raise:
\* result.get needs a dict, result.get(k, []) is iterated and its elements
\* appended to a str.  keys: the keys the handler reads.
shows_result(result, keys) ==
    /\ result.t = "dict"
    /\ \A k \in keys : k \in DOMAIN result.d => joinable(result.d[k])

\* chat_history.insert(0, entry)
list_prepend(history, entry) == <<entry>> \o history

\* chat_history.append(entry)
list_append(history, entry) == Append(history, entry)

\* The run stopped at the credential check: nothing of the page is drawn and
\* the event is lost.
stopped(event, inputs) ==
    /\ ~gate_passes
    /\ page' = "stopped"
    /\ display' = <<>>
    /\ last' = Obs(event, FALSE, inputs, 0, NoRequest, NoSvc, NoCall, FALSE)
    /\ UNCHANGED <<secrets, environ, dotenv, chat_history, consultation_results,
                   doc_content, legal_domain, doc_file>>

\* A run that reaches the end of the script: the sidebar and the handlers
\* left `history` and `domain`, the uploader holds `file`.
script_run(obs, history, domain, file) ==
    /\ gate_passes
    /\ chat_history' = history
    /\ legal_domain' = domain
    /\ doc_file' = file
    /\ doc_content' = process_upload(file, doc_content)
    /\ page' = "app"
    /\ display' = render_history(history)
    /\ last' = obs
    /\ UNCHANGED <<secrets, environ, dotenv>>

\* A run in which a handler raised after appending: the rest of the script,
\* the history section included, is not executed.  `content` is
\* st.session_state.doc_content where the handler raised.
crashed_run(obs, history, content) ==
    /\ gate_passes
    /\ chat_history' = history
    /\ doc_content' = content
    /\ page' = "app"
    /\ display' = <<>>
    /\ last' = obs
    /\ UNCHANGED <<secrets, environ, dotenv, consultation_results, legal_domain,
                   doc_file>>

\* The user reloads the page: a run with no widget event.
reload ==
    \/ stopped("reload", NoInputs)
    \/ /\ script_run(Idle("reload", TRUE), chat_history, legal_domain, doc_file)
       /\ UNCHANGED consultation_results

\* selectbox, lines 114-121
select_domain(d) ==
    /\ page = "app"
    /\ d # legal_domain
    /\ \/ stopped("select_domain", NoInputs)
       \/ /\ script_run(Idle("select_domain", TRUE), chat_history, d, doc_file)
          /\ UNCHANGED consultation_results

\* "清除历史记录", lines 131-134: the lists are emptied and st.rerun() starts
\* the script again.
clear_history ==
    /\ page = "app"
    /\ \/ stopped("clear_history", NoInputs)
       \/ /\ script_run(Idle("clear_history", TRUE), <<>>, legal_domain, doc_file)
          /\ consultation_results' = <<>>

\* The user puts a file into the uploader (line 214).
upload_file(f) ==
    /\ page = "app"
    /\ f # doc_file
    /\ \/ stopped("upload_file", NoInputs)
       \/ /\ script_run(Idle("upload_file", TRUE), chat_history, legal_domain, f)
          /\ UNCHANGED consultation_results

\* The user takes the file out of the uploader.
remove_file ==
    /\ page = "app"
    /\ doc_file.present
    /\ \/ stopped("remove_file", NoInputs)
       \/ /\ script_run(Idle("remove_file", TRUE), chat_history, legal_domain,
                        NoFile)
          /\ UNCHANGED consultation_results

\* What a press of a consultation button does once its inputs are accepted:
\* one call of legal_agent, the entry appended, the result shown.
\* `content` is st.session_state.doc_content when the handler runs.
consult(event, inputs, full_query, consult_type, entry, keys, content, svc) ==
    LET call == legal_agent(full_query, consult_type, legal_domain, secrets,
                            environ, dotenv, svc)
        sent == [query |-> full_query, consult_type |-> consult_type,
                 legal_domain |-> legal_domain]
        history == list_append(chat_history, entry @@ [result |-> call.value])
        obs(crashed) == Obs(event, TRUE, inputs, 1, sent, svc, call, crashed)
    IN  /\ UNCHANGED consultation_results
        /\ IF shows_result(call.value, keys)
           THEN script_run(obs(FALSE), history, legal_domain, doc_file)
           ELSE crashed_run(obs(TRUE), history, content)

\* A press that the handler refuses with a warning: the script goes on.
refused(event, inputs) ==
    /\ script_run(Obs(event, TRUE, inputs, 0, NoRequest, NoSvc, NoCall, FALSE),
                  chat_history, legal_domain, doc_file)
    /\ UNCHANGED consultation_results

\* "获取法律信息", lines 160-198.  The handler runs before the upload is read.
basic_info_button(query, svc) ==
    LET inputs == [query |-> query, case_details |-> <<>>] IN
    /\ page = "app"
    /\ Len(chat_history) < MaxHistory
    /\ \/ stopped("basic_info_button", inputs)
       \/ /\ gate_passes
          /\ IF Len(query) = 0
             THEN refused("basic_info_button", inputs)
             ELSE consult("basic_info_button", inputs, query, BASIC,
                          [type |-> BASIC, query |-> query],
                          {"references"}, doc_content, svc)

\* f"请解读以下法律文件内容:\n{doc_content}\n\n用户问题: {doc_query}"
document_query(content, doc_query) ==
    Plain("Please read the following legal document:\n") \o content.s
    \o Plain("\n\nuser question: ") \o doc_query

\* "解读文件", lines 216-274: the upload is read first (216-225).
doc_button(doc_query, svc) ==
    LET inputs == [query |-> doc_query, case_details |-> <<>>]
        content == process_upload(doc_file, doc_content)
    IN
    /\ page = "app"
    /\ Len(chat_history) < MaxHistory
    /\ \/ stopped("doc_button", inputs)
       \/ /\ gate_passes
          /\ IF ~Truthy(content) \/ Len(doc_query) = 0
             THEN refused("doc_button", inputs)
             ELSE consult("doc_button", inputs,
                          document_query(content, doc_query), DOCUMENT,
                          [type |-> DOCUMENT, query |-> doc_query,
                           document |-> IF doc_file.present THEN doc_file.name
                                        ELSE ""],
                          {"references"}, content, svc)

\* f"案件研究请求:\n{case_details}\n\n用户问题: {case_query}"
case_full_query(case_details, case_query) ==
    Plain("Case study request:\n") \o case_details
    \o Plain("\n\nuser question: ") \o case_query

\* "获取案例分析", lines 292-342
case_button(case_details, case_query, svc) ==
    LET inputs == [query |-> case_query, case_details |-> case_details]
        content == process_upload(doc_file, doc_content)
    IN
    /\ page = "app"
    /\ Len(chat_history) < MaxHistory
    /\ \/ stopped("case_button", inputs)
       \/ /\ gate_passes
          /\ IF Len(case_details) = 0 \/ Len(case_query) = 0
             THEN refused("case_button", inputs)
             ELSE consult("case_button", inputs,
                          case_full_query(case_details, case_query), CASE_STUDY,
                          [type |-> CASE_STUDY, case_details |-> case_details,
                           query |-> case_query],
                          {"steps", "references"}, content, svc)

\* The secret store is edited outside the session; st.secrets reads it anew.
secrets_changed(s) ==
    /\ s # secrets
    /\ secrets' = s
    /\ UNCHANGED <<environ, dotenv, chat_history, consultation_results,
                   doc_content, legal_domain, doc_file, page, display, last>>

\* A session starts with a first run of the script that passed the
\* credential check and ran init_session_state (lines 94-106).
Init ==
    /\ secrets \in SecretsStates
    /\ environ = <<>>
    /\ dotenv = TRUE
    /\ gate_passes
    /\ SessionInit

Next ==
    \/ reload
    \/ \E d \in LEGAL_DOMAINS : select_domain(d)
    \/ clear_history
    \/ \E f \in Files : upload_file(f)
    \/ remove_file
    \/ \E q \in Queries, svc \in SessionOutcomes : basic_info_button(q, svc)
    \/ \E q \in Queries, svc \in SessionOutcomes : doc_button(q, svc)
    \/ \E cd \in CaseDetails, q \in Queries, svc \in SessionOutcomes :
          case_button(cd, q, svc)
    \/ \E s \in SecretsStates : secrets_changed(s)

Spec == Init /\ [][Next]_vars

-----------------------------------------------------------------------------
(* Properties of the pipeline (checked under SpecPipeline)                  *)

\* The last step invoked legal_agent.
Ran == last.runs = 1
Value == last.call.value
\* What credential resolution yields under the configuration of the state.
ResolvedKey == get_api_credentials(secrets, environ, dotenv).api_key

\* part occurs in text as a contiguous run.
Embeds(text, part) ==
    \E i \in 0..(Len(text) - Len(part)) :
        SubSeq(text, i + 1, i + Len(part)) = part

\* A ConsultationResult: a record that has the field answer.
IsConsultationResult(v) == v.t = "dict" /\ "answer" \in DOMAIN v.d

\* C1: for every request, every outcome of credential resolution and of the
\* model call and every raw reply text, legal_agent returns without raising
\* and returns a ConsultationResult record whose answer field is present.
C1_AlwaysConsultationResult ==
    Ran => ~last.call.raised /\ IsConsultationResult(Value)

\* C2: whenever credential resolution yields no API key, the run returns the
\* result whose answer states that the key is missing and whose references
\* name the remediation, and no model call is attempted.
C2_MissingKeyNoCall ==
    (Ran /\ ~HasKey(ResolvedKey)) =>
        /\ Value = PyDict([answer |-> PyStr(Plain("<error: API key not found; set API_KEY in Streamlit Secrets>")),
                           references |-> PyList(<<PyStr(Plain("<add API_KEY in the Streamlit settings>"))>>)])
        /\ last.call.attempts = 0
        /\ last.call.outbound = 0
        /\ last.call.prompt = <<>>

\* A run without credentials in which the service was ready to reply.
C2_Witness ==
    Ran /\ ~HasKey(ResolvedKey) /\ last.svc = Reply(FullReply)

\* C3: whenever the model call fails, while it is built or while it runs,
\* the pipeline entered the call once, did not call again, and returns a
\* result whose answer embeds the failure's text and whose references are
\* the one entry "check API key and network connection".
C3_CallFailureSurfaced ==
    (Ran /\ HasKey(ResolvedKey) /\ last.svc.kind \in {"build_error", "call_error"}) =>
        /\ last.call.attempts = 1
        /\ last.call.outbound <= 1
        /\ Value.t = "dict"
        /\ DOMAIN Value.d = {"answer", "references"}
        /\ Value.d["answer"].t = "str"
        /\ Len(last.svc.text) > 0
        /\ Embeds(Value.d["answer"].s, last.svc.text)
        /\ Value.d["references"] = PyList(<<PyStr(Plain(REF_CHECK_CONNECTION))>>)

\* A run with credentials in which chain.run raised.
C3_Witness ==
    Ran /\ HasKey(ResolvedKey) /\ last.svc = CallError /\ last.call.outbound = 1

\* C4: for every raw reply that is not decodable as JSON, the result is the
\* record with answer the whole raw text and references the one-element
\* sequence REF_UNPARSED, and it has no steps.
C4_UndecodableReplyFallback ==
    (Ran /\ HasKey(ResolvedKey) /\ last.svc.kind = "reply"
         /\ last.svc.text \in UndecodableReplies) =>
        /\ Value.t = "dict"
        /\ DOMAIN Value.d = {"answer", "references"}
        /\ Value.d["answer"] = PyStr(last.svc.text)
        /\ Value.d["references"] = PyList(<<PyStr(Plain(REF_UNPARSED))>>)

\* The replies that decode to a record with an answer.
StructuredReplies == {FullReply, StepsReply, BareReply}
OptionalFields == {"references", "steps"}

\* C5: when the raw reply decodes as a structured record, the result has
\* both references and steps, and a field the reply omits is an empty
\* sequence.
C5_OptionalFieldsDefaulted ==
    (Ran /\ HasKey(ResolvedKey) /\ last.svc.kind = "reply"
         /\ last.svc.text \in StructuredReplies) =>
        /\ Value.t = "dict"
        /\ \A k \in OptionalFields :
              /\ k \in DOMAIN Value.d
              /\ k \notin DOMAIN json_loads(last.svc.text).val.d
                    => Value.d[k] = PyList(<<>>)

\* A source holds a non-empty API key.
SecretHoldsKey == "API_KEY" \in DOMAIN secrets /\ secrets["API_KEY"] # ""
EnvironHoldsKey ==
    "OPENAI_API_KEY" \in DOMAIN environ /\ environ["OPENAI_API_KEY"] # ""

\* C9: the missing-key result is returned only if neither the secret store
\* nor the environment yields a non-empty API key: whenever one of the two
\* holds one, the pipeline proceeds to the model call.
C9_KeyFromEitherSource ==
    (Ran /\ (SecretHoldsKey \/ EnvironHoldsKey)) =>
        /\ last.call.attempts = 1
        /\ Value # missing_key_result

-----------------------------------------------------------------------------
(* Properties of the session (checked under Spec)                           *)

Buttons == {"basic_info_button", "doc_button", "case_button"}

\* The step is a run started by a consultation button (the one step that
\* leaves `last` alone, secrets_changed, changes secrets).
PressStep == last'.event \in Buttons /\ secrets' = secrets

\* All inputs the pressed button requires are non-empty.
InputsGiven ==
    CASE last'.event = "basic_info_button" -> Len(last'.inputs.query) > 0
      [] last'.event = "doc_button" ->
            Truthy(doc_content') /\ Len(last'.inputs.query) > 0
      [] last'.event = "case_button" ->
            Len(last'.inputs.case_details) > 0 /\ Len(last'.inputs.query) > 0
      [] OTHER -> FALSE

TypeOf(event) ==
    CASE event = "basic_info_button" -> BASIC
      [] event = "doc_button" -> DOCUMENT
      [] event = "case_button" -> CASE_STUDY

\* One pipeline run, and one entry with the action's type, query and result
\* appended at the end of the ledger.
OneRunOneEntry ==
    /\ last'.runs = 1
    /\ Len(chat_history') = Len(chat_history) + 1
    /\ SubSeq(chat_history', 1, Len(chat_history)) = chat_history
    /\ LET e == chat_history'[Len(chat_history')] IN
          /\ e.type = TypeOf(last'.event)
          /\ e.query = last'.inputs.query
          /\ e.result = last'.call.value

NoRunNoEntry ==
    /\ last'.runs = 0
    /\ last'.call.outbound = 0
    /\ chat_history' = chat_history

\* Entries leave the ledger only by the clear button.
OnlyClearRemoves ==
    (Len(chat_history') < Len(chat_history)
        \/ SubSeq(chat_history', 1, Len(chat_history)) # chat_history)
    => last'.event = "clear_history"

\* The entries the claim says the history section shows.
RecentReversed(history) ==
    [i \in 1..Min(HISTORY_SHOWN, Len(history)) |-> history[Len(history) - i + 1]]

\* C6: the history display shows exactly the last min(5, length) stored
\* entries, most recent first, and right after a clear the ledger and the
\* display are empty.
C6_DisplayShowsRecent ==
    /\ page = "app" => display = RecentReversed(chat_history)
    /\ (last.event = "clear_history" /\ last.gate) =>
          chat_history = <<>> /\ display = <<>>

DocumentAvailable(file) ==
    file.present /\ Truthy(display_document_content(file, file.file_type))

\* C8: a document-interpretation press is rejected, with no model call and
\* no history entry, whenever no document is available at the press.
C8_RejectedWithoutDocument ==
    [][(PressStep /\ last'.event = "doc_button" /\ ~DocumentAvailable(doc_file'))
          => NoRunNoEntry]_vars

\* C10: the document name recorded by a document-interpretation entry is the
\* name of the file whose extracted text was embedded in the query sent to
\* the model for that entry.
C10_RecordedNameIsEmbeddedFile ==
    (last.event = "doc_button" /\ last.runs = 1) =>
        LET e == chat_history[Len(chat_history)] IN
        \E f \in Files :
            /\ f.name = e.document
            /\ DocumentAvailable(f)
            /\ Embeds(last.sent.query,
                      display_document_content(f, f.file_type).s)

====
